---- MODULE Spec2Model ----
(***************************************************************************)
(* Task dashboard (src/app.py): the schedule-table builders (daily and     *)
(* weekly), the filtered and sorted list view, and the add / edit / delete *)
(* handlers with their write-through to the spreadsheet store.             *)
(*                                                                         *)
(* Representation.                                                         *)
(*  - A calendar date is the number of days from PROJECT_START, so         *)
(*    (d - PROJECT_START).days is d - PROJECT_START.  A date cell is <<d>>,*)
(*    the missing value (NaT / None) is <<>>.                              *)
(*  - A data frame is a sequence of rows; where the pandas index labels    *)
(*    matter (the list view) a row is paired with its label.               *)
(*  - Column names: Phase = "Phase", Title = task name, Status = status,   *)
(*    StartDate / EndDate = start / end date, StartDay / EndDay / Day =    *)
(*    the day-offset columns.  Category, detail and owner are carried      *)
(*    through by every operation unread and are left out.                  *)
(*  - Status texts: "todo" = not started, "doing" = in progress,           *)
(*    "done" = completed.  Marks: "v" = done, "o" = point, "#" = span.     *)
(***************************************************************************)
EXTENDS Integers, Sequences, FiniteSets, TLC

VARIABLES
    df,             \* st.session_state["df"]: the session's task collection
    store,          \* the spreadsheet: [header, rows] as written by save_tasks
    phase_filter,   \* sidebar multiselect "Phase"
    status_filter,  \* sidebar multiselect status
    write_failures, \* how many write-throughs have failed so far
    last,           \* the handler that changed the collection last ("load" at first)
    selected_df,    \* the frame handed to a schedule builder
    view_mode,      \* "session" in a session; "select", then "daily" / "weekly"
    schedule_df,    \* the table the builder returned
    other_df,       \* st.session_state["df"] of a second session on the same sheet
    cache           \* the st.cache_data entry of load_tasks: <<>> or <<frame>>

vars == <<df, store, phase_filter, status_filter, write_failures, last,
          selected_df, view_mode, schedule_df, other_df, cache>>

gridVars == <<selected_df, view_mode, schedule_df>>

peerVars == <<other_df, cache>>

----------------------------------------------------------------------------
(* Configuration *)

PROJECT_START == 0
MAX_SCHEDULE_DAYS == 180

NaT == <<>>

Min(a, b) == IF a < b THEN a ELSE b
Max(a, b) == IF a > b THEN a ELSE b

\* pandas Series.clip(lower, upper) / max(lower, min(upper, v))
Clip(v, lo, hi) == Max(lo, Min(hi, v))

RECURSIVE SeqMax(_)
SeqMax(s) ==
    IF Len(s) = 1 THEN s[1] ELSE Max(s[1], SeqMax(Tail(s)))

----------------------------------------------------------------------------
(* Calendar: datetime.date arithmetic from PROJECT_START = 2025-11-25 *)

IsLeap(y) == (y % 4 = 0 /\ y % 100 # 0) \/ y % 400 = 0

DaysInMonth(y, m) ==
    IF m = 2 THEN (IF IsLeap(y) THEN 29 ELSE 28)
    ELSE IF m \in {4, 6, 9, 11} THEN 30 ELSE 31

RECURSIVE Carry(_, _, _)
Carry(y, m, d) ==
    IF d < 1
    THEN IF m = 1 THEN Carry(y - 1, 12, d + 31)
         ELSE Carry(y, m - 1, d + DaysInMonth(y, m - 1))
    ELSE IF d <= DaysInMonth(y, m) THEN <<y, m, d>>
    ELSE IF m = 12 THEN Carry(y + 1, 1, d - 31)
    ELSE Carry(y, m + 1, d - DaysInMonth(y, m))

\* PROJECT_START + timedelta(days = n) as <<year, month, day>>
Ymd(n) == Carry(2025, 11, 25 + (n - PROJECT_START))

\* the day number of the first day of month m of year y, counted from 2025-11-01
RECURSIVE MonthStart(_, _)
MonthStart(y, m) ==
    IF y = 2025 /\ m = 11 THEN 0
    ELSE IF y > 2025 \/ (y = 2025 /\ m > 11)
    THEN IF m = 1 THEN MonthStart(y - 1, 12) + 31
         ELSE MonthStart(y, m - 1) + DaysInMonth(y, m - 1)
    ELSE IF m = 12 THEN MonthStart(y + 1, 1) - 31
         ELSE MonthStart(y, m + 1) - DaysInMonth(y, m)

\* (date(y, m, d) - PROJECT_START).days + PROJECT_START
DayNumber(y, m, d) == PROJECT_START + MonthStart(y, m) + (d - 1) - 24

\* date(2026, 3, 31) as a day number
BASE_END == CHOOSE n \in 0..366 : Ymd(n) = <<2026, 3, 31>>

\* d.strftime("%m/%d"): the text is fixed by (month, day)
DayLabel(n) == LET date == Ymd(n) IN <<date[2], date[3]>>

----------------------------------------------------------------------------
(* Ordering of the text keys (Python str comparison on the texts used) *)

STR_ORDER == <<"A", "B", "Phase1", "Phase2">>

StrRank(s) == CHOOSE i \in 1..Len(STR_ORDER) : STR_ORDER[i] = s

\* a date key of sort_values: missing values sort last (na_position="last")
DateKey(d) == IF d = NaT THEN <<1, 0>> ELSE <<0, d[1]>>

RECURSIVE TupleLess(_, _)
TupleLess(a, b) ==
    IF Len(a) = 0 THEN FALSE
    ELSE IF a[1] < b[1] THEN TRUE
    ELSE IF a[1] > b[1] THEN FALSE
    ELSE TupleLess(Tail(a), Tail(b))

\* DataFrame.sort_values(by): the stable ascending order of the row positions
\* 1..Len(keys) on their key tuples (the indexer sort_values takes the rows by)
RECURSIVE InsertSorted(_, _, _)
InsertSorted(sorted, i, keys) ==
    IF sorted = <<>> THEN <<i>>
    ELSE IF TupleLess(keys[i], keys[sorted[1]]) THEN <<i>> \o sorted
    ELSE <<sorted[1]>> \o InsertSorted(Tail(sorted), i, keys)

RECURSIVE SortIndexer(_, _)
SortIndexer(n, keys) ==
    IF n = 0 THEN <<>>
    ELSE InsertSorted(SortIndexer(n - 1, keys), n, keys)

sort_values(keys) == SortIndexer(Len(keys), keys)

----------------------------------------------------------------------------
(* A row dict filled label by label, then pd.DataFrame(rows):             *)
(* a repeated label overwrites its cell and keeps its first position.     *)

\* the dict's keys in insertion order
DictKeys(labels) ==
    IF Cardinality({labels[i] : i \in 1..Len(labels)}) = Len(labels)
    THEN labels
    ELSE LET first == {i \in 1..Len(labels) :
                          \A j \in 1..(i - 1) : labels[j] # labels[i]}
             RECURSIVE Pick(_)
             Pick(i) == IF i > Len(labels) THEN <<>>
                        ELSE IF i \in first THEN <<labels[i]>> \o Pick(i + 1)
                        ELSE Pick(i + 1)
         IN  Pick(1)

\* the dict's values, aligned with its keys: the last value written per key
\* (values[i] is what the loop writes under labels[i])
DictValues(labels, keys, values) ==
    IF keys = labels
    THEN values
    ELSE LET lastOf(k) == CHOOSE i \in 1..Len(labels) :
                             /\ labels[i] = keys[k]
                             /\ \A j \in (i + 1)..Len(labels) : labels[j] # keys[k]
         IN  [k \in 1..Len(keys) |-> values[lastOf(k)]]

EmptyFrame == [columns |-> <<>>, rows |-> <<>>]

----------------------------------------------------------------------------
(* build_schedule_table: the daily grid *)

\* a date cell holding a text that is no date
Unparseable == <<"text", "text">>

\* pd.to_datetime(cell, errors="coerce").dt.date of a frame cell
coerce_date(cell) == IF Len(cell) = 1 THEN cell ELSE NaT

\* fillna of the two date columns
FillStart(start) == IF start = NaT THEN <<PROJECT_START>> ELSE start
FillEnd(start, end) == IF end = NaT THEN start ELSE end

\* mask = end < start; df.loc[mask, end] = df.loc[mask, start]
CoerceEnd(start, end) == IF end[1] < start[1] THEN start ELSE end

\* (date - PROJECT_START).days + 1, clipped to 1..MAX_SCHEDULE_DAYS
DayOffset(d) == Clip((d[1] - PROJECT_START) + 1, 1, MAX_SCHEDULE_DAYS)

\* the frame after date normalisation and the recomputed day columns
DailyPrepared(frame) ==
    [i \in 1..Len(frame) |->
        LET s == FillStart(coerce_date(frame[i].StartDate))
            e == CoerceEnd(s, FillEnd(s, coerce_date(frame[i].EndDate)))
        IN  [Phase |-> frame[i].Phase, Title |-> frame[i].Title,
             Status |-> frame[i].Status, StartDate |-> s, EndDate |-> e,
             StartDay |-> DayOffset(s), EndDay |-> DayOffset(e)]]

\* mutant: the window without its BASE_END floor
dynamic_end_NoFloor(max_end_day) ==
    PROJECT_START + (Min(max_end_day, MAX_SCHEDULE_DAYS) - 1)

\* max(BASE_END, PROJECT_START + timedelta(days = max_end_day - 1))
dynamic_end(max_end_day) ==
    Max(BASE_END, PROJECT_START + (Min(max_end_day, MAX_SCHEDULE_DAYS) - 1))

\* the labels of the first days from PROJECT_START, worked out once
CALENDAR ==
    [i \in 1..Max((BASE_END - PROJECT_START) + 1, MAX_SCHEDULE_DAYS) |->
        DayLabel(PROJECT_START + (i - 1))]

\* one label per day of [PROJECT_START, dynamic_end]
date_labels(num_days) ==
    [i \in 1..num_days |->
        IF i <= Len(CALENDAR) THEN CALENDAR[i] ELSE DayLabel(PROJECT_START + (i - 1))]

\* mutant: the sort without its third key
DailySortKey_NoTitle(row) == <<row.StartDate[1], StrRank(row.Phase)>>

\* sort_values(["StartDate", "Phase", "Title"])
DailySortKey(row) ==
    <<row.StartDate[1], StrRank(row.Phase), StrRank(row.Title)>>

\* mutant: the range test with its upper end left out
InDayRange_HalfOpen(start_idx, end_idx, idx) == start_idx <= idx /\ idx < end_idx

\* start_idx <= idx <= end_idx
InDayRange(start_idx, end_idx, idx) == start_idx <= idx /\ idx <= end_idx

\* mutant: the marks as they were before the done mark, status unread
DayMark_NoStatus(status, start_day, end_day) ==
    IF start_day = end_day THEN "o" ELSE "#"

\* the mark of a day inside the range
DayMark(status, start_day, end_day) ==
    IF status = "done" THEN "v"
    ELSE IF start_day = end_day THEN "o" ELSE "#"

build_schedule_table(frame) ==
    IF frame = <<>> THEN EmptyFrame
    ELSE
    LET prep == DailyPrepared(frame)
        max_end_day == SeqMax([i \in 1..Len(prep) |-> prep[i].EndDay])
        num_days == (dynamic_end(max_end_day) - PROJECT_START) + 1
        labels == date_labels(num_days)
        order == sort_values([i \in 1..Len(prep) |-> DailySortKey(prep[i])])
        keys == DictKeys(labels)
        row_data(k) ==
            LET row == prep[order[k]]
                mark(i) ==
                    IF InDayRange(row.StartDay - 1, row.EndDay - 1, i - 1)
                    THEN DayMark(row.Status, row.StartDay, row.EndDay)
                    ELSE ""
            IN  [No |-> k, Phase |-> row.Phase, Title |-> row.Title,
                 Status |-> row.Status, StartDate |-> row.StartDate,
                 EndDate |-> row.EndDate, cells |-> DictValues(labels, keys,
                                               [i \in 1..Len(labels) |-> mark(i)])]
    IN  [columns |-> keys,
         rows |-> [k \in 1..Len(prep) |-> row_data(k)]]

----------------------------------------------------------------------------
(* build_schedule_table_weekly: the weekly grid *)

\* (d - PROJECT_START).days // 7 + 1
WeekOf(d) == ((d[1] - PROJECT_START) \div 7) + 1

\* pd.to_datetime(column) with errors="raise" (the default): a text that is no
\* date raises, a missing value stays missing
to_datetime_raises(frame) ==
    \E i \in 1..Len(frame) :
        frame[i].StartDate = Unparseable \/ frame[i].EndDate = Unparseable

\* the frame after fillna, with the two week columns
WeeklyPrepared(frame) ==
    [i \in 1..Len(frame) |->
        LET s == FillStart(frame[i].StartDate)
            e == FillEnd(s, frame[i].EndDate)
        IN  [Phase |-> frame[i].Phase, Title |-> frame[i].Title,
             Status |-> frame[i].Status, StartDate |-> s, EndDate |-> e,
             StartWeek |-> WeekOf(s), EndWeek |-> WeekOf(e)]]

\* f"{month}M{week_of_month}W" of the week's first day: fixed by the two numbers
WeekLabel(w) ==
    LET week_start == Ymd(PROJECT_START + w * 7)
    IN  <<week_start[2], ((week_start[3] - 1) \div 7) + 1>>

\* for w in range(max_week)
week_labels(max_week) == [i \in 1..max_week |-> WeekLabel(i - 1)]

\* sort_values(["StartWeek", "Phase"])
WeeklySortKey(row) == <<row.StartWeek, StrRank(row.Phase)>>

WeekMark(status) == IF status = "done" THEN "v" ELSE "#"

build_schedule_table_weekly(frame) ==
    IF frame = <<>> THEN EmptyFrame
    ELSE
    LET prep == WeeklyPrepared(frame)
        order == sort_values([i \in 1..Len(prep) |-> WeeklySortKey(prep[i])])
        max_week == SeqMax([i \in 1..Len(prep) |-> prep[i].EndWeek])
        labels == week_labels(max_week)
        keys == DictKeys(labels)
        row_data(k) ==
            LET row == prep[order[k]]
                mark(i) ==
                    IF (row.StartWeek - 1) <= (i - 1) /\ (i - 1) <= (row.EndWeek - 1)
                    THEN WeekMark(row.Status)
                    ELSE ""
            IN  [No |-> k, Phase |-> row.Phase, Title |-> row.Title,
                 Status |-> row.Status, StartDate |-> row.StartDate,
                 EndDate |-> row.EndDate, cells |-> DictValues(labels, keys,
                                               [i \in 1..Len(labels) |-> mark(i)])]
    IN  [columns |-> keys,
         rows |-> [k \in 1..Len(prep) |-> row_data(k)]]

----------------------------------------------------------------------------
(* The frames handed to the builders *)

MaxRows == 2

GridPhases == {"Phase1", "Phase2"}
GridTitles == {"A", "B"}
GridStatus == {"todo", "doing", "done"}

\* (start, end) pairs: one day at the epoch, three days from the epoch, an
\* inverted range, a range past BASE_END, a range past MAX_SCHEDULE_DAYS, a range
\* before the epoch, both dates missing, a range over weeks 1 and 2
GridRanges ==
    { <<(<<0>>), (<<0>>)>>, <<(<<0>>), (<<2>>)>>, <<(<<10>>), (<<6>>)>>,
      <<(<<120>>), (<<130>>)>>, <<(<<170>>), (<<499>>)>>, <<(<<-3>>), (<<-1>>)>>,
      <<NaT, NaT>>, <<(<<3>>), (<<9>>)>> }

GridTask(phase, title, status, range) ==
    [Phase |-> phase, Title |-> title, Status |-> status,
     StartDate |-> range[1], EndDate |-> range[2]]

\* tasks that differ in the sort keys, tasks that differ in range and status,
\* and tasks with a date text that cannot be read
GridTasks ==
    { GridTask(p, t, "todo", <<s, (<<2>>)>>) :
        p \in GridPhases, t \in GridTitles, s \in {(<<0>>), (<<2>>)} }
    \cup { GridTask("Phase1", "A", st, r) : st \in GridStatus, r \in GridRanges }
    \cup { GridTask("Phase2", "B", "doing", r) :
              r \in { <<Unparseable, (<<2>>)>>, <<(<<4>>), Unparseable>> } }

GridInputs == UNION { [1..n -> GridTasks] : n \in 0..MaxRows }

----------------------------------------------------------------------------
(* The spreadsheet and the session's collection                            *)
(* A sheet is [header, rows].  A number cell is <<n>>, a date cell is the  *)
(* text of the date as <<year, month, day>>, a blank or unreadable cell    *)
(* is <<>> (also the text "NaT" that astype(str) writes for a missing      *)
(* date).                                                                  *)

BASE_COLUMNS == {"Day", "Phase", "Title", "Status", "StartDay", "EndDay"}
ALL_COLUMNS == BASE_COLUMNS \cup {"StartDate", "EndDate"}

\* the sheet after ws.clear()
ClearedSheet == [header |-> {}, rows |-> <<>>]

\* pd.to_numeric(cell, errors="coerce"): the number, or NaN (<<>>)
to_numeric(cell) == IF Len(cell) = 1 THEN cell ELSE <<>>

\* pd.to_datetime(cell, errors="coerce") of a sheet cell
to_datetime(cell) ==
    IF Len(cell) = 3 THEN <<DayNumber(cell[1], cell[2], cell[3])>> ELSE NaT

\* str(date): "YYYY-MM-DD", or "NaT"
DateText(d) == IF d = NaT THEN <<>> ELSE Ymd(d[1])

\* Series.fillna(other)
fillna(v, other) == IF v = <<>> THEN other ELSE v

load_tasks(sheet) ==
    [i \in 1..Len(sheet.rows) |->
        LET r == sheet.rows[i]
            has(c) == c \in sheet.header
            day0 == IF has("Day") THEN to_numeric(r.Day) ELSE <<>>
            sd0 == IF has("StartDay") THEN to_numeric(r.StartDay) ELSE day0
            ed0 == IF has("EndDay") THEN to_numeric(r.EndDay) ELSE day0
            day1 == fillna(day0, <<1>>)
            sd1 == fillna(sd0, day1)
            ed1 == fillna(ed0, sd1)
            day == Clip(day1[1], 1, MAX_SCHEDULE_DAYS)
            sd == Clip(sd1[1], 1, MAX_SCHEDULE_DAYS)
            ed == Clip(ed1[1], 1, MAX_SCHEDULE_DAYS)
            start == IF has("StartDate") THEN to_datetime(r.StartDate)
                     ELSE <<PROJECT_START + (sd - 1)>>
            end == IF has("EndDate") THEN to_datetime(r.EndDate) ELSE start
        IN  [Day |-> day, Phase |-> r.Phase, Title |-> r.Title,
             Status |-> IF r.Status = "" THEN "todo" ELSE r.Status,
             StartDay |-> sd, EndDay |-> ed,
             StartDate |-> start, EndDate |-> end]]

\* the values save_tasks writes: header + save_df.astype(str)
SheetOf(frame) ==
    [header |-> ALL_COLUMNS,
     rows |-> [i \in 1..Len(frame) |->
        [Day |-> <<frame[i].Day>>, Phase |-> frame[i].Phase,
         Title |-> frame[i].Title, Status |-> frame[i].Status,
         StartDay |-> <<frame[i].StartDay>>, EndDay |-> <<frame[i].EndDay>>,
         StartDate |-> DateText(frame[i].StartDate),
         EndDate |-> DateText(frame[i].EndDate)]]]

\* mutant: a write that merges, keeping the sheet's rows the frame does not have
save_tasks_Merge(sheet, frame, outcome) ==
    LET new == SheetOf(frame)
        kept(r) == \A i \in 1..Len(new.rows) : new.rows[i] # r
    IN  IF outcome = "ok"
        THEN [header |-> ALL_COLUMNS, rows |-> new.rows \o SelectSeq(sheet.rows, kept)]
        ELSE IF outcome = "fail_update" THEN ClearedSheet
        ELSE sheet

\* save_tasks: ws.clear() then ws.update("A1", values).  outcome:
\*   "ok"          both calls succeed
\*   "fail_open"   the client, the workbook or clear() raises: sheet untouched
\*   "fail_update" clear() succeeded and update() raises: sheet left cleared
save_tasks(sheet, frame, outcome) ==
    IF outcome = "ok" THEN SheetOf(frame)
    ELSE IF outcome = "fail_update" THEN ClearedSheet
    ELSE sheet

----------------------------------------------------------------------------
(* The filtered, sorted list view *)

\* a finite set of numbers as an ascending sequence
RECURSIVE Ascending(_)
Ascending(S) ==
    IF S = {} THEN <<>>
    ELSE LET m == CHOOSE x \in S : \A y \in S : x <= y
         IN  <<m>> \o Ascending(S \ {m})

\* the options of the two sidebar multiselects
PhaseOptions(frame) == {frame[i].Phase : i \in 1..Len(frame)}
StatusOptions(frame) == {frame[i].Status : i \in 1..Len(frame)}

\* Phase.isin(phase_filter) and Status.isin(status_filter); an empty selection
\* filters nothing (the owner filter is left empty throughout)
PassesFilters(row, pf, sf) ==
    /\ (pf = {} \/ row.Phase \in pf)
    /\ (sf = {} \/ row.Status \in sf)

\* the index labels (0-based) of the rows the filters keep, in storage order
FilteredLabels(frame, pf, sf) ==
    Ascending({i - 1 : i \in {j \in 1..Len(frame) : PassesFilters(frame[j], pf, sf)}})

\* sort_values(["StartDate", "Phase", "Title"]) on the filtered view
ViewSortKey(row) ==
    DateKey(row.StartDate) \o <<StrRank(row.Phase), StrRank(row.Title)>>

\* the index labels of view_df right after sort_values: the storage label of
\* the record behind each view row
SortedLabels(frame, pf, sf) ==
    LET kept == FilteredLabels(frame, pf, sf)
        order == sort_values([k \in 1..Len(kept) |-> ViewSortKey(frame[kept[k] + 1])])
    IN  [k \in 1..Len(kept) |-> kept[order[k]]]

\* reset_index(drop=True): the labels are thrown away and renumbered 0..n-1
reset_index_drop(labels) == [k \in 1..Len(labels) |-> k - 1]

\* view_df after sort_values(...).reset_index(drop=True): rows and index
view_rows(frame, pf, sf) ==
    LET labels == SortedLabels(frame, pf, sf)
    IN  [k \in 1..Len(labels) |-> frame[labels[k] + 1]]

view_index(frame, pf, sf) == reset_index_drop(SortedLabels(frame, pf, sf))

\* list_df = view_df.copy().reset_index(), "index" renamed: the _orig_index column
orig_index(frame, pf, sf) == view_index(frame, pf, sf)

\* a keyless multiselect keeps its selection while its options are unchanged
KeptSelection(selection, old_options, new_options) ==
    IF new_options = old_options THEN selection ELSE {}

----------------------------------------------------------------------------
(* The handlers *)

MaxTasks == 2
MaxWriteFailures == 1

SessionPhases == {"Phase1", "Phase2"}
SessionTitles == {"B"}
\* (start, end) as typed in the add form and in the editor: the epoch alone,
\* day 500 with an earlier end, five days from the epoch, and the same inverted
AddRanges == { <<(<<0>>), (<<0>>)>>, <<(<<499>>), (<<0>>)>> }
EditRanges == { <<(<<0>>), (<<5>>)>>, <<(<<5>>), (<<0>>)>> }

\* the selections of the two multiselects that are tried
FilterChoices ==
    { <<{}, {}>>, <<{"Phase1"}, {}>>, <<{"Phase2"}, {}>>, <<{}, {"todo"}>> }

Outcomes == {"ok", "fail_open", "fail_update"}

Failed(outcome) == IF outcome = "ok" THEN 0 ELSE 1

\* what every handler does after it replaced the session's collection by frame
Commit(frame, outcome) ==
    /\ outcome = "ok" \/ write_failures < MaxWriteFailures
    /\ df' = frame
    /\ store' = save_tasks(store, frame, outcome)
    /\ write_failures' = write_failures + Failed(outcome)
    /\ phase_filter' = KeptSelection(phase_filter, PhaseOptions(df), PhaseOptions(frame))
    /\ status_filter' = KeptSelection(status_filter, StatusOptions(df), StatusOptions(frame))
    /\ UNCHANGED gridVars
    /\ UNCHANGED peerVars

\* the sidebar: a change of either multiselect reruns the script
SetFilter(pf, sf) ==
    /\ view_mode = "session"
    /\ pf \subseteq PhaseOptions(df) /\ sf \subseteq StatusOptions(df)
    /\ <<pf, sf>> # <<phase_filter, status_filter>>
    /\ phase_filter' = pf /\ status_filter' = sf
    /\ UNCHANGED <<df, store, write_failures, last>>
    /\ UNCHANGED gridVars
    /\ UNCHANGED peerVars

\* base_df.drop(index = target_idx).reset_index(drop=True)
drop(frame, label) ==
    [p \in 1..(Len(frame) - 1) |-> IF p < label + 1 THEN frame[p] ELSE frame[p + 1]]

\* the delete button, with row k of list_df chosen in the selectbox
DeleteTask(k, outcome) ==
    /\ view_mode = "session"
    /\ k \in 1..Len(orig_index(df, phase_filter, status_filter))
    /\ LET target_idx == orig_index(df, phase_filter, status_filter)[k]
       IN  Commit(drop(df, target_idx), outcome)
    /\ last' = "delete"

\* edited_df: the rows of the editor, row k (if any) with its two dates retyped
edited_rows(frame, pf, sf, k, start, end) ==
    LET rows == view_rows(frame, pf, sf)
    IN  [j \in 1..Len(rows) |->
            IF j = k THEN [rows[j] EXCEPT !.StartDate = start, !.EndDate = end]
            ELSE rows[j]]

\* max(1, min(MAX_SCHEDULE_DAYS, day_val)), day_val = 1 for a missing date
EditedDay(d) ==
    IF d = NaT THEN Max(1, Min(MAX_SCHEDULE_DAYS, 1))
    ELSE Max(1, Min(MAX_SCHEDULE_DAYS, (d[1] - PROJECT_START) + 1))

\* the record at orig_idx after the loop body ran for the editor row
WriteRow(record, row) ==
    [record EXCEPT !.StartDay = EditedDay(row.StartDate),
                   !.EndDay = EditedDay(row.EndDate),
                   !.Phase = row.Phase, !.Title = row.Title, !.Status = row.Status,
                   !.StartDate = row.StartDate, !.EndDate = row.EndDate]

\* base_df after the loop over edited_df.iterrows()
saved_edits(frame, rows, index) ==
    [p \in 1..Len(frame) |->
        IF \E j \in 1..Len(rows) : index[j] = p - 1
        THEN WriteRow(frame[p], rows[CHOOSE j \in 1..Len(rows) : index[j] = p - 1])
        ELSE frame[p]]

\* the save button of the edit tab; k = 0 saves the editor untouched
EditSave(k, start, end, outcome) ==
    /\ view_mode = "session"
    /\ Len(view_rows(df, phase_filter, status_filter)) > 0
    /\ k \in 0..Len(view_rows(df, phase_filter, status_filter))
    /\ k = 0 => start = NaT /\ end = NaT
    /\ Commit(saved_edits(df, edited_rows(df, phase_filter, status_filter, k, start, end),
                          orig_index(df, phase_filter, status_filter)), outcome)
    /\ last' = "edit"

\* new_row of the add form
new_row(phase, title, status, start_date, end_date) ==
    LET end == IF end_date[1] < start_date[1] THEN start_date ELSE end_date
        start_day == (start_date[1] - PROJECT_START) + 1
        end_day == (end[1] - PROJECT_START) + 1
    IN  [Day |-> start_day, Phase |-> phase, Title |-> title, Status |-> status,
         StartDay |-> start_day, EndDay |-> end_day,
         StartDate |-> start_date, EndDate |-> end]

\* the add form submitted; without a task name it only shows an error
AddTask(phase, title, start_date, end_date, outcome) ==
    /\ view_mode = "session"
    /\ Len(df) < MaxTasks
    /\ title # ""
    /\ Commit(df \o <<new_row(phase, title, "todo", start_date, end_date)>>, outcome)
    /\ last' = "add"

\* the sheets a session starts from: no data, one row in the sheet's first
\* layout (no date columns, single-day), one row as save_tasks writes it
InitRows ==
    { [Day |-> day, Phase |-> p, Title |-> "A", Status |-> st,
       StartDay |-> day, EndDay |-> <<>>, StartDate |-> <<>>, EndDate |-> <<>>] :
        day \in {(<<3>>)}, p \in {"Phase1"}, st \in {""} }

InitSheets ==
    {ClearedSheet}
    \cup {[header |-> BASE_COLUMNS, rows |-> <<r>>] : r \in InitRows}
    \cup {SheetOf(load_tasks([header |-> BASE_COLUMNS, rows |-> <<r>>])) : r \in InitRows}

Init ==
    /\ store \in InitSheets
    /\ df = load_tasks(store)
    /\ phase_filter = {} /\ status_filter = {}
    /\ write_failures = 0
    /\ last = "load"
    /\ selected_df = <<>> /\ view_mode = "session" /\ schedule_df = EmptyFrame
    /\ other_df = <<>> /\ cache = <<load_tasks(store)>>

Next ==
    \/ \E f \in FilterChoices : SetFilter(f[1], f[2])
    \/ \E k \in 1..MaxTasks, o \in Outcomes : DeleteTask(k, o)
    \/ \E k \in 0..MaxTasks, r \in EditRanges \cup {<<NaT, NaT>>}, o \in Outcomes :
          EditSave(k, r[1], r[2], o)
    \/ \E p \in SessionPhases, t \in SessionTitles \cup {""}, r \in AddRanges, o \in Outcomes :
          AddTask(p, t, r[1], r[2], o)

Spec == Init /\ [][Next]_vars

----------------------------------------------------------------------------
(* The builders applied to a chosen frame *)

InitGrid ==
    /\ selected_df \in GridInputs
    /\ view_mode = "select"
    /\ schedule_df = EmptyFrame
    /\ df = <<>> /\ store = ClearedSheet
    /\ phase_filter = {} /\ status_filter = {}
    /\ write_failures = 0
    /\ last = "load"
    /\ other_df = <<>> /\ cache = <<>>

BuildDaily ==
    /\ view_mode = "select"
    /\ view_mode' = "daily"
    /\ schedule_df' = build_schedule_table(selected_df)
    /\ UNCHANGED <<selected_df, df, store, phase_filter, status_filter,
                   write_failures, last>>
    /\ UNCHANGED peerVars

\* an exception ends the script run: no table, view_mode "error"
BuildWeekly ==
    /\ view_mode = "select"
    /\ IF selected_df # <<>> /\ to_datetime_raises(selected_df)
       THEN view_mode' = "error" /\ schedule_df' = schedule_df
       ELSE /\ view_mode' = "weekly"
            /\ schedule_df' = build_schedule_table_weekly(selected_df)
    /\ UNCHANGED <<selected_df, df, store, phase_filter, status_filter,
                   write_failures, last>>
    /\ UNCHANGED peerVars

NextGrid == BuildDaily \/ BuildWeekly

SpecGrid == InitGrid /\ [][NextGrid]_vars

----------------------------------------------------------------------------
(* load_tasks applied to a chosen sheet *)

\* the optional columns of a sheet: the two day-offset columns one by one, the
\* two date columns together (save_tasks writes both, the first layout neither)
LoadHeaders ==
    { {"Day", "Phase", "Title", "Status"} \cup offs \cup dates :
        offs \in SUBSET {"StartDay", "EndDay"},
        dates \in {{}, {"StartDate", "EndDate"}} }

\* the cells of a column that the sheet has: blank, or a value
LoadCells(column) ==
    IF column = "Day" THEN {(<<>>), (<<3>>)}
    ELSE IF column = "StartDay" THEN {(<<>>), (<<5>>), (<<500>>)}
    ELSE IF column = "EndDay" THEN {(<<>>), (<<7>>)}
    ELSE IF column = "StartDate" THEN {(<<>>), (<<2025, 12, 5>>)}
    ELSE {(<<>>), (<<2025, 12, 8>>)}

\* a column the sheet does not have is read by nobody: its cell is left blank
LoadColumn(header, column) ==
    IF column \in header THEN LoadCells(column) ELSE {(<<>>)}

LoadSheets ==
    {ClearedSheet}
    \cup UNION { { [header |-> h,
                    rows |-> << [Day |-> day, Phase |-> "Phase1", Title |-> "A",
                                 Status |-> "", StartDay |-> sd, EndDay |-> ed,
                                 StartDate |-> s, EndDate |-> e] >>] :
                     day \in LoadColumn(h, "Day"),
                     sd \in LoadColumn(h, "StartDay"), ed \in LoadColumn(h, "EndDay"),
                     s \in LoadColumn(h, "StartDate"), e \in LoadColumn(h, "EndDate") } :
                 h \in LoadHeaders }

InitLoad ==
    /\ store \in LoadSheets
    /\ df = <<>>
    /\ view_mode = "loading"
    /\ phase_filter = {} /\ status_filter = {}
    /\ write_failures = 0
    /\ last = "start"
    /\ selected_df = <<>> /\ schedule_df = EmptyFrame
    /\ other_df = <<>> /\ cache = <<>>

\* if "df" not in st.session_state: st.session_state["df"] = load_tasks()
LoadSession ==
    /\ view_mode = "loading"
    /\ df' = load_tasks(store)
    /\ cache' = <<load_tasks(store)>>
    /\ view_mode' = "loaded"
    /\ last' = "load"
    /\ UNCHANGED <<store, phase_filter, status_filter, write_failures,
                   selected_df, schedule_df, other_df>>

NextLoad == LoadSession

SpecLoad == InitLoad /\ [][NextLoad]_vars

----------------------------------------------------------------------------
(* Two sessions on one sheet, and the cache in front of load_tasks *)

\* load_tasks() behind @st.cache_data(ttl=60): the entry while there is one,
\* whatever the sheet holds by now
cached_load_tasks(entry, sheet) ==
    IF entry # <<>> THEN entry[1] ELSE load_tasks(sheet)

\* the sheets two sessions start from: no data, or one row (a task on day 3)
\* as save_tasks wrote it
SessionSheets ==
    {sheet \in InitSheets :
        /\ sheet.header # BASE_COLUMNS
        /\ sheet.rows # <<>> => sheet.rows[1].Day = <<3>>}

\* both sessions have just loaded the same sheet
InitSessions ==
    /\ store \in SessionSheets
    /\ df = load_tasks(store) /\ other_df = load_tasks(store)
    /\ cache = <<load_tasks(store)>>
    /\ phase_filter = {} /\ status_filter = {}
    /\ write_failures = 0
    /\ last = "load"
    /\ selected_df = <<>> /\ view_mode = "session" /\ schedule_df = EmptyFrame

\* what a handler of the second session does with its new collection
PeerCommit(frame, outcome) ==
    /\ outcome = "ok" \/ write_failures < MaxWriteFailures
    /\ other_df' = frame
    /\ store' = save_tasks(store, frame, outcome)
    /\ write_failures' = write_failures + Failed(outcome)
    /\ last' = "peer"
    /\ UNCHANGED <<df, phase_filter, status_filter, cache>>
    /\ UNCHANGED gridVars

\* the add form and the delete button of the second session (no filter set)
PeerAdd(phase, title, start_date, end_date, outcome) ==
    /\ view_mode = "session"
    /\ Len(other_df) < MaxTasks
    /\ title # ""
    /\ PeerCommit(other_df \o <<new_row(phase, title, "todo", start_date, end_date)>>,
                  outcome)

PeerDelete(k, outcome) ==
    /\ view_mode = "session"
    /\ k \in 1..Len(orig_index(other_df, {}, {}))
    /\ PeerCommit(drop(other_df, orig_index(other_df, {}, {})[k]), outcome)

\* the page reloaded: a new session, st.session_state without "df"
Reload ==
    /\ view_mode = "session"
    /\ df' = cached_load_tasks(cache, store)
    /\ cache' = <<cached_load_tasks(cache, store)>>
    /\ phase_filter' = {} /\ status_filter' = {}
    /\ last' = "reload"
    /\ UNCHANGED <<store, write_failures, other_df>>
    /\ UNCHANGED gridVars

\* ttl = 60: a minute after it was made the entry is gone
CacheExpire ==
    /\ view_mode = "session"
    /\ cache # <<>>
    /\ cache' = <<>>
    /\ UNCHANGED <<df, store, phase_filter, status_filter, write_failures, last,
                   other_df>>
    /\ UNCHANGED gridVars

\* the first session adds Phase1 tasks, the second Phase2 tasks.  Every write
\* goes through here: the writes that fail are followed in Spec.
NextSessions ==
    \/ AddTask("Phase1", "B", <<0>>, <<0>>, "ok")
    \/ \E k \in 1..MaxTasks : DeleteTask(k, "ok")
    \/ EditSave(1, <<0>>, <<5>>, "ok")
    \/ PeerAdd("Phase2", "B", <<0>>, <<0>>, "ok")
    \/ \E k \in 1..MaxTasks : PeerDelete(k, "ok")
    \/ Reload
    \/ CacheExpire

SpecSessions == InitSessions /\ [][NextSessions]_vars

----------------------------------------------------------------------------
(* Properties of the daily grid *)

\* what the claims call the normalized dates of an input task
NormStart(t) == IF Len(t.StartDate) # 1 THEN PROJECT_START ELSE t.StartDate[1]
NormEnd(t) ==
    IF Len(t.EndDate) # 1 THEN NormStart(t)
    ELSE IF t.EndDate[1] < NormStart(t) THEN NormStart(t) ELSE t.EndDate[1]

\* the 1-based day offset of a day number, clipped to [1, MAX_SCHEDULE_DAYS]
ClippedOffset(d) ==
    LET off == (d - PROJECT_START) + 1
    IN  IF off < 1 THEN 1 ELSE IF off > MAX_SCHEDULE_DAYS THEN MAX_SCHEDULE_DAYS ELSE off

\* row is the output row of input task t
RowOf(row, t) ==
    /\ row.Phase = t.Phase /\ row.Title = t.Title /\ row.Status = t.Status
    /\ row.StartDate = <<NormStart(t)>> /\ row.EndDate = <<NormEnd(t)>>

Matchings(n) ==
    {p \in [1..n -> 1..n] : \A i, j \in 1..n : p[i] = p[j] => i = j}

\* row a does not come after row b in (start_date, phase, title) order
InDailyOrder(a, b) ==
    \/ a.StartDate[1] < b.StartDate[1]
    \/ /\ a.StartDate[1] = b.StartDate[1]
       /\ \/ StrRank(a.Phase) < StrRank(b.Phase)
          \/ /\ a.Phase = b.Phase
             /\ StrRank(a.Title) <= StrRank(b.Title)

\* the columns of a row that hold a mark
Marked(row) == {c \in 1..Len(row.cells) : row.cells[c] # ""}

DailyBuilt == view_mode = "daily" /\ selected_df # <<>>

\* C1: the daily builder returns one row per input task (a one-to-one match
\* of rows and tasks), the rows ascend in (start_date, phase, title) on the
\* normalized dates, and No. runs 1, 2, ..., N down the rows.
C1_OneRowPerTaskInOrder ==
    DailyBuilt =>
        LET rows == schedule_df.rows
            n == Len(selected_df)
        IN  /\ Len(rows) = n
            /\ \E p \in Matchings(n) :
                  \A k \in 1..n : RowOf(rows[k], selected_df[p[k]])
            /\ \A k \in 1..n : rows[k].No = k
            /\ \A k \in 1..(n - 1) : InDailyOrder(rows[k], rows[k + 1])

\* two tasks with equal start and phase, handed over in descending title order,
\* come out swapped
C1_Witness ==
    /\ DailyBuilt /\ Len(selected_df) = 2
    /\ selected_df[1].StartDate = selected_df[2].StartDate
    /\ selected_df[1].Phase = selected_df[2].Phase
    /\ selected_df[1].Title = "B" /\ selected_df[2].Title = "A"
    /\ schedule_df.rows[1].Title = "A" /\ schedule_df.rows[2].No = 2

\* C4: in every row of the daily grid the marked day columns are exactly the
\* columns start_day_offset .. end_day_offset (clipped offsets of the row's
\* normalized dates): one run of end - start + 1 cells, between 1 and
\* MAX_SCHEDULE_DAYS long, every other cell empty.
C4_MarkedRunIsOffsetRange ==
    DailyBuilt =>
        \A k \in 1..Len(schedule_df.rows) :
            LET row == schedule_df.rows[k]
                so == ClippedOffset(row.StartDate[1])
                eo == ClippedOffset(row.EndDate[1])
            IN  /\ Len(row.cells) = Len(schedule_df.columns)
                /\ Marked(row) = so..eo
                /\ Cardinality(Marked(row)) = eo - so + 1
                /\ 1 <= eo - so + 1 /\ eo - so + 1 <= MAX_SCHEDULE_DAYS
                /\ \A c \in 1..Len(row.cells) : c \notin so..eo => row.cells[c] = ""

\* a task from day 171 to day 500 is marked on the ten columns 171..180
C4_Witness ==
    /\ DailyBuilt
    /\ \E k \in 1..Len(schedule_df.rows) :
          /\ schedule_df.rows[k].StartDate = <<170>>
          /\ schedule_df.rows[k].EndDate = <<499>>
          /\ Marked(schedule_df.rows[k]) = 171..180

\* C5: every marked cell of a daily row holds the done mark if the task is
\* done, otherwise the point mark if start offset = end offset, otherwise the
\* span mark; a not-done task on the epoch alone has one marked column with
\* the point mark, an in-progress task from the epoch to epoch + 2 has three
\* consecutive marked columns with the span mark.
C5_MarkerRule ==
    DailyBuilt =>
        \A k \in 1..Len(schedule_df.rows) :
            LET row == schedule_df.rows[k]
                so == ClippedOffset(row.StartDate[1])
                eo == ClippedOffset(row.EndDate[1])
                expected == IF row.Status = "done" THEN "v"
                            ELSE IF so = eo THEN "o" ELSE "#"
            IN  /\ \A c \in Marked(row) : row.cells[c] = expected
                /\ (row.Status # "done" /\ row.StartDate = <<PROJECT_START>>
                        /\ row.EndDate = <<PROJECT_START>>)
                    => (Marked(row) = {1} /\ row.cells[1] = "o")
                /\ (row.Status = "doing" /\ row.StartDate = <<PROJECT_START>>
                        /\ row.EndDate = <<PROJECT_START + 2>>)
                    => (Marked(row) = {1, 2, 3}
                        /\ \A c \in {1, 2, 3} : row.cells[c] = "#")

\* a done task over three days next to a not-started task on the epoch alone
C5_Witness ==
    /\ DailyBuilt
    /\ \E k \in 1..Len(schedule_df.rows) :
          /\ schedule_df.rows[k].Status = "done"
          /\ Marked(schedule_df.rows[k]) = {1, 2, 3}
          /\ \A c \in {1, 2, 3} : schedule_df.rows[k].cells[c] = "v"
    /\ \E k \in 1..Len(schedule_df.rows) :
          /\ schedule_df.rows[k].Status = "todo"
          /\ Marked(schedule_df.rows[k]) = {1}
          /\ schedule_df.rows[k].cells[1] = "o"

\* C6: the daily grid has max(B, E) day columns, B the day offset of the base
\* end date and E the largest clipped end offset of a task, never more than
\* MAX_SCHEDULE_DAYS, and column i is the i-th calendar day from the epoch,
\* no two columns the same day.
C6_WindowWidth ==
    DailyBuilt =>
        LET cols == schedule_df.columns
            B == (BASE_END - PROJECT_START) + 1
            E == SeqMax([i \in 1..Len(selected_df) |->
                            ClippedOffset(NormEnd(selected_df[i]))])
        IN  /\ Len(cols) = (IF B > E THEN B ELSE E)
            /\ Len(cols) <= MAX_SCHEDULE_DAYS
            /\ cols = SubSeq(CALENDAR, 1, Len(cols))
            /\ Cardinality({cols[i] : i \in 1..Len(cols)}) = Len(cols)

\* a task ending on day 131 stretches the window past the base end (day 127)
\* in one frame; in another no task reaches the base end
C6_Witness ==
    /\ DailyBuilt
    /\ Len(schedule_df.columns) = 131
    /\ \E i \in 1..Len(selected_df) : selected_df[i].EndDate = <<130>>

\* the input tasks whose end date lies before their start date
Inverted(t) ==
    /\ Len(t.StartDate) = 1 /\ Len(t.EndDate) = 1
    /\ t.EndDate[1] < t.StartDate[1]

\* C7: in the daily and in the weekly grid a task with end_date < start_date
\* is shown as if end_date = start_date: its row reports end = start and has
\* exactly one marked column.
C7_InvertedRangeCoerced ==
    (view_mode \in {"daily", "weekly"} /\ selected_df # <<>>) =>
        \A i \in 1..Len(selected_df) :
            Inverted(selected_df[i]) =>
                \E k \in 1..Len(schedule_df.rows) :
                    LET row == schedule_df.rows[k]
                    IN  /\ row.Phase = selected_df[i].Phase
                        /\ row.Title = selected_df[i].Title
                        /\ row.Status = selected_df[i].Status
                        /\ row.StartDate = selected_df[i].StartDate
                        /\ row.EndDate = row.StartDate
                        /\ Cardinality(Marked(row)) = 1

----------------------------------------------------------------------------
(* Properties of the weekly grid *)

WeeklyBuilt == view_mode = "weekly" /\ selected_df # <<>>

\* the week of a day number: ((date - epoch).days div 7) + 1
WeekNumber(d) == ((d - PROJECT_START) \div 7) + 1

\* the largest end week of the input tasks (missing dates filled in)
MaxEndWeek ==
    SeqMax([i \in 1..Len(selected_df) |->
               LET t == selected_df[i]
               IN  WeekNumber(IF Len(t.EndDate) # 1 THEN NormStart(t) ELSE t.EndDate[1])])

\* C12: the weekly grid of a non-empty collection has exactly W week columns,
\* W the largest end week of a task; column k is the week that starts 7 (k - 1)
\* days after the epoch, and no two weeks share a column.
C12_WeekColumns ==
    WeeklyBuilt =>
        LET cols == schedule_df.columns
            W == IF MaxEndWeek < 0 THEN 0 ELSE MaxEndWeek
        IN  /\ Len(cols) = W
            /\ \A k \in 1..Len(cols) : cols[k] = WeekLabel(k - 1)
            /\ Cardinality({cols[k] : k \in 1..Len(cols)}) = Len(cols)

\* row a does not come after row b in (start_week, phase) order
InWeeklyOrder(a, b) ==
    \/ WeekNumber(a.StartDate[1]) < WeekNumber(b.StartDate[1])
    \/ /\ WeekNumber(a.StartDate[1]) = WeekNumber(b.StartDate[1])
       /\ StrRank(a.Phase) <= StrRank(b.Phase)

\* C13: in every row of the weekly grid the marked week columns are exactly the
\* weeks start_week .. end_week of the task (those that have a column), all with
\* the done mark if the task is done and the span mark otherwise; a not-done
\* task over weeks 1 and 2 has exactly two marked columns.  There is one row
\* per input task, numbered 1..N in ascending (start_week, phase) order.
C13_WeeklyRows ==
    WeeklyBuilt =>
        LET rows == schedule_df.rows
            n == Len(selected_df)
            W == IF MaxEndWeek < 0 THEN 0 ELSE MaxEndWeek
        IN  /\ Len(rows) = n
            /\ \E p \in Matchings(n) :
                  \A k \in 1..n :
                      /\ rows[k].Phase = selected_df[p[k]].Phase
                      /\ rows[k].Title = selected_df[p[k]].Title
                      /\ rows[k].Status = selected_df[p[k]].Status
                      /\ rows[k].StartDate = <<NormStart(selected_df[p[k]])>>
            /\ \A k \in 1..n : rows[k].No = k
            /\ \A k \in 1..(n - 1) : InWeeklyOrder(rows[k], rows[k + 1])
            /\ \A k \in 1..n :
                  LET sw == WeekNumber(rows[k].StartDate[1])
                      ew == WeekNumber(rows[k].EndDate[1])
                  IN  /\ Marked(rows[k]) = {w \in 1..W : sw <= w /\ w <= ew}
                      /\ \A c \in Marked(rows[k]) :
                            rows[k].cells[c] = (IF rows[k].Status = "done" THEN "v" ELSE "#")
                      /\ (rows[k].Status # "done" /\ sw = 1 /\ ew = 2)
                            => Cardinality(Marked(rows[k])) = 2

\* C14: no builder ends in an error for a problem of the data's shape: an
\* empty collection gives an empty table, and a task whose start or end date is
\* missing or is no date still gets its row, with start_date the epoch and
\* end_date the start date in its place.
C14_BuildersNeverRaise ==
    /\ view_mode # "error"
    /\ view_mode \in {"daily", "weekly"} =>
          /\ selected_df = <<>> => schedule_df = EmptyFrame
          /\ Len(schedule_df.rows) = Len(selected_df)
          /\ \A i \in 1..Len(selected_df) :
                LET t == selected_df[i]
                IN  (Len(t.StartDate) # 1 \/ Len(t.EndDate) # 1) =>
                        \E k \in 1..Len(schedule_df.rows) :
                            LET row == schedule_df.rows[k]
                            IN  /\ row.Phase = t.Phase /\ row.Title = t.Title
                                /\ row.Status = t.Status
                                /\ Len(t.StartDate) # 1 => row.StartDate = <<PROJECT_START>>
                                /\ Len(t.StartDate) = 1 => row.StartDate = t.StartDate
                                /\ Len(t.EndDate) # 1 => row.EndDate = row.StartDate

----------------------------------------------------------------------------
(* Properties of the session's collection and of the store *)

\* frame without the record at storage position pos
Without(frame, pos) ==
    [p \in 1..(Len(frame) - 1) |-> IF p < pos THEN frame[p] ELSE frame[p + 1]]

\* C2: deleting the row chosen in the list view removes exactly the task shown
\* in that row (the record the view row was taken from) from the session's
\* collection; every other record stays, unchanged and in the same order.
C2_DeleteRemovesShownTask ==
    [][\A k \in 1..MaxTasks, o \in Outcomes :
          DeleteTask(k, o) =>
              df' = Without(df, SortedLabels(df, phase_filter, status_filter)[k] + 1)]_vars

\* C3: saving the editor writes each editor row to the record its view row was
\* taken from, leaves the records outside the view as they were, and keeps the
\* number of records.
C3_EditWritesToSourceRecord ==
    [][\A k \in 0..MaxTasks, r \in EditRanges \cup {<<NaT, NaT>>}, o \in Outcomes :
          EditSave(k, r[1], r[2], o) =>
              LET labels == SortedLabels(df, phase_filter, status_filter)
                  rows == edited_rows(df, phase_filter, status_filter, k, r[1], r[2])
              IN  /\ Len(df') = Len(df)
                  /\ \A j \in 1..Len(rows) :
                        LET rec == df'[labels[j] + 1]
                        IN  /\ rec.Phase = rows[j].Phase /\ rec.Title = rows[j].Title
                            /\ rec.Status = rows[j].Status
                            /\ rec.StartDate = rows[j].StartDate
                            /\ rec.EndDate = rows[j].EndDate
                  /\ \A p \in 1..Len(df) :
                        (\A j \in 1..Len(labels) : labels[j] + 1 # p) => df'[p] = df[p]]_vars

\* C8: in every state of the session's collection the day offsets of every
\* record lie in [1, MAX_SCHEDULE_DAYS] and are the clipped offsets of its dates.
C8_OffsetsAgreeWithDates ==
    view_mode = "session" =>
        \A i \in 1..Len(df) :
            /\ df[i].StartDay \in 1..MAX_SCHEDULE_DAYS
            /\ df[i].EndDay \in 1..MAX_SCHEDULE_DAYS
            /\ df[i].StartDate # NaT => df[i].StartDay = ClippedOffset(df[i].StartDate[1])
            /\ df[i].EndDate # NaT => df[i].EndDay = ClippedOffset(df[i].EndDate[1])

\* C9: in every state of the session's collection every record has
\* end_date >= start_date.
C9_EndNotBeforeStart ==
    view_mode = "session" =>
        \A i \in 1..Len(df) :
            (df[i].StartDate # NaT /\ df[i].EndDate # NaT)
                => df[i].EndDate[1] >= df[i].StartDate[1]

\* C10: once an add, edit-save or delete has ended, the store holds exactly
\* the records of the session's collection, all of them and in the same order,
\* also when the write to the store failed.
C10_StoreEqualsSession ==
    (view_mode = "session" /\ last \in {"add", "edit", "delete"}) =>
        store.rows = SheetOf(df).rows

----------------------------------------------------------------------------
(* Properties of load_tasks *)

\* the cell of a column in the loaded sheet's row, blank if the sheet has no
\* such column
SheetCell(column) ==
    IF column \in store.header THEN store.rows[1][column] ELSE <<>>

\* C11: in a loaded record, a start / end day offset that the sheet leaves
\* blank is the clipped offset of the record's start / end date when that date
\* is there; it is 1 when neither a date nor any day value is there; an end
\* offset without value and date equals the start offset; every offset lies
\* in [1, MAX_SCHEDULE_DAYS].
C11_OffsetFromDate ==
    (view_mode = "loaded" /\ Len(df) = 1) =>
        LET rec == df[1]
            noStart == to_numeric(SheetCell("StartDay")) = <<>>
            noEnd == to_numeric(SheetCell("EndDay")) = <<>>
            noDay == to_numeric(SheetCell("Day")) = <<>>
        IN  /\ rec.StartDay \in 1..MAX_SCHEDULE_DAYS
            /\ rec.EndDay \in 1..MAX_SCHEDULE_DAYS
            /\ (noStart /\ rec.StartDate # NaT)
                  => rec.StartDay = ClippedOffset(rec.StartDate[1])
            /\ (noEnd /\ rec.EndDate # NaT /\ "EndDate" \in store.header)
                  => rec.EndDay = ClippedOffset(rec.EndDate[1])
            /\ (noStart /\ noDay /\ rec.StartDate = NaT) => rec.StartDay = 1
            /\ (noEnd /\ SheetCell("EndDate") = <<>> /\ "EndDay" \in store.header)
                  => rec.EndDay = rec.StartDay

----------------------------------------------------------------------------
(* Properties of two sessions on one sheet *)

Records(rows) == {rows[i] : i \in 1..Len(rows)}

\* a step in which a handler of the first session changed something and its
\* write went through
WritesThrough ==
    /\ last' \in {"add", "edit", "delete"}
    /\ write_failures' = write_failures
    /\ <<df', store'>> # <<df, store>>

\* C15: a change that another session commits to the sheet does not reach this
\* session's collection (only a reload does), and this session's next add,
\* edit-save or delete that is written puts this session's whole collection in
\* the sheet's place: every row of the sheet that this session's collection
\* does not have is gone afterwards (overwrite, no merge).
C15_LostUpdate ==
    [][/\ other_df' # other_df => df' = df
       /\ WritesThrough =>
            /\ store' = SheetOf(df')
            /\ \A x \in Records(store.rows) :
                  x \notin Records(SheetOf(df').rows) => x \notin Records(store'.rows)]_vars

\* the second session has added a Phase2 task, every write went through, and
\* after this session's add the sheet holds this session's collection, the
\* Phase2 task not among its rows
C15_Witness ==
    /\ view_mode = "session" /\ last = "add" /\ write_failures = 0
    /\ \E i \in 1..Len(other_df) : other_df[i].Phase = "Phase2"
    /\ \A j \in 1..Len(store.rows) : store.rows[j].Phase # "Phase2"
    /\ Len(df) > 0 /\ store = SheetOf(df)

\* C16: a session that starts anew (page reload) starts with the collection
\* the sheet holds at that moment: whatever was committed before is in it.
C16_ReloadSeesStore ==
    (view_mode = "session" /\ last = "reload") => df = load_tasks(store)

\* C17: a write-through is all or nothing: after any step the sheet holds the
\* rows it held before or the complete rows of the session's new collection,
\* never none or a part of them, also when the write fails on the way.
C17_WriteAllOrNothing ==
    [][view_mode = "session" =>
          \/ store'.rows = store.rows
          \/ store'.rows = SheetOf(df').rows]_vars

====
